---- MODULE Spec2Model ----
(***************************************************************************)
(* WIKTAC node agent: the reconciliation tick, the background loop and the *)
(* allowlist endpoints, in the two builds the repository carries:          *)
(*   "image" = wiktac-node-agent/image-src/wiktac_agent/wiktac_agent.py    *)
(*   "agent" = wiktac-node-agent/agent/wiktac_agent/wiktac_agent.py        *)
(* Strings that the code lower-cases or searches are sequences of          *)
(* one-character strings; Optional values are <<>> (None) or <<x>>.        *)
(* The clock advances with the loop's sleeps only; a file is read or       *)
(* written in one step; one POST handler runs at a time.  A tick step is   *)
(* the code from one await (or file read) to the next, its save_state      *)
(* included when the tick ends there.                                      *)
(***************************************************************************)
EXTENDS Integers, Sequences, FiniteSets, TLC

VARIABLES
    variant,        \* which build runs: "image" or "agent"
    ARMED_MODE,     \* env ARMED_MODE
    FAILSAFE_STOP_MINING, \* env FAILSAFE_STOP_MINING (read by the image build only)
    stateFile,      \* content of /data/state.json, NoFile when absent
    allowFile,      \* content of /data/allowed-payouts.yml, NoFile when absent
    now,            \* int(time.time())
    loopPc,         \* position of the loop task: "boot", "tick", "sleep"
    tickPc,         \* position of the running tick: "idle", "allow", "list", "restart"
    inflight,       \* number of ticks started and not yet saved
    state,          \* the tick's local `state`
    a,              \* the tick's local `a` (the allowlist it loaded)
    containers,     \* the tick's local `containers`
    roles,          \* the tick's local `roles`: role -> index into containers, 0 = None
    k,              \* index into ROLE_ORDER of the role the tick is at
    loaded,         \* history: the state as the last tick loaded it
    requests,       \* history: the Docker requests the last tick sent
    error,          \* history: None or the text of the exception the last tick caught
    lastSaveAt,     \* history: None or the time of the last tick's save_state
    ticks,          \* history: number of ticks started
    postPc,         \* position of the POST /api/allowlist handler: "idle", "load", "save"
    payload,        \* None or the body of the current (or last) POST
    st,             \* the handler's local `st`
    posts,          \* history: number of POSTs received
    fnIn,           \* input of the function under test (pure-function specifications)
    fnOut           \* None or its result

vars == <<variant, ARMED_MODE, FAILSAFE_STOP_MINING, stateFile, allowFile, now,
          loopPc, tickPc, inflight, state, a, containers, roles, k, loaded,
          requests, error, lastSaveAt, ticks, postPc, payload, st, posts,
          fnIn, fnOut>>

----------------------------------------------------------------------------
(* Bounds of the model *)
MaxOps == 2          \* ticks started plus POSTs received in one run
MaxContainers == 3

(* Program constants *)
TICK_SECONDS == 30
LOG_CAP == 200
BOOT_SLEEP_IMAGE == 2
BOOT_SLEEP_AGENT == 3

(* Optional values and absent files: <<>> is None, <<x>> is x *)
None == <<>>
Some(x) == <<x>>
NoFile == <<>>

----------------------------------------------------------------------------
(* str.lower() and the `in` substring test *)
UpperChars == <<"A","B","C","D","E","F","G","H","I","J","K","L","M","N","O","P","Q","R","S","T","U","V","W","X","Y","Z">>
LowerChars == <<"a","b","c","d","e","f","g","h","i","j","k","l","m","n","o","p","q","r","s","t","u","v","w","x","y","z">>

LowerChar(c) ==
    IF \E i \in 1..Len(UpperChars) : UpperChars[i] = c
    THEN LowerChars[CHOOSE i \in 1..Len(UpperChars) : UpperChars[i] = c]
    ELSE c

lower(s) == [i \in 1..Len(s) |-> LowerChar(s[i])]

Contains(key, s) ==
    \E i \in 0..(Len(s) - Len(key)) : SubSeq(s, i + 1, i + Len(key)) = key

----------------------------------------------------------------------------
(* The keywords of classify and the container states the tick tests *)
kw_bitcoin == <<"b","i","t","c","o","i","n">>
kw_bitcoind == <<"b","i","t","c","o","i","n","d">>
kw_bitcoin_node == <<"b","i","t","c","o","i","n","-","n","o","d","e">>
kw_bch == <<"b","c","h">>
kw_bitcoincash == <<"b","i","t","c","o","i","n","c","a","s","h">>
kw_bitcoin_cash == <<"b","i","t","c","o","i","n","-","c","a","s","h">>
kw_bchn == <<"b","c","h","n">>
kw_digibyte == <<"d","i","g","i","b","y","t","e">>
kw_dgb == <<"d","g","b">>
kw_miningcore == <<"m","i","n","i","n","g","c","o","r","e">>

st_exited == <<"e","x","i","t","e","d">>
st_dead == <<"d","e","a","d">>
st_running == <<"r","u","n","n","i","n","g">>

(* faulty variant: the roles are walked from the last to the first *)
ROLE_ORDER_Reversed == <<"miningcore", "dgb", "bch", "btc">>

ROLE_ORDER == <<"btc", "bch", "dgb", "miningcore">>
Roles == {"btc", "bch", "dgb", "miningcore"}
Currencies == {"btc", "bch", "dgb"}

Keys(role) ==
    CASE role = "btc" -> {kw_bitcoin, kw_bitcoind, kw_bitcoin_node}
      [] role = "bch" -> {kw_bch, kw_bitcoincash, kw_bitcoin_cash, kw_bchn}
      [] role = "dgb" -> {kw_digibyte, kw_dgb}
      [] role = "miningcore" -> {kw_miningcore}

(* A container of the Docker list response.  Names is a list of strings,   *)
(* Image and State are strings, <<>> when the field is missing or empty.   *)
Container(id, names, image, cstate, status) ==
    [Id |-> id, Names |-> names, Image |-> image, State |-> cstate, Status |-> status]

FirstName(c) == IF c.Names = <<>> THEN <<>> ELSE c.Names[1]

(* faulty variant: the name and the image are not lower-cased *)
MatchesCaseSensitive(keys, c) ==
    \/ \E key \in keys : Contains(key, FirstName(c))
    \/ \E key \in keys : Contains(key, c.Image)

Matches(keys, c) ==
    LET name == lower(FirstName(c))
        img == lower(c.Image)
    IN  (\E key \in keys : Contains(key, name)) \/ (\E key \in keys : Contains(key, img))

RECURSIVE pickFrom(_, _, _)
pickFrom(keys, cs, i) ==
    IF i > Len(cs) THEN 0
    ELSE IF Matches(keys, cs[i]) THEN i
    ELSE pickFrom(keys, cs, i + 1)

pick(keys, cs) == pickFrom(keys, cs, 1)

(* role -> index of the picked container in cs, 0 for None *)
classify(cs) == [r \in Roles |-> pick(Keys(r), cs)]

----------------------------------------------------------------------------
(* The allowlist.  A JSON/YAML mapping is a record over the keys the model *)
(* uses, each field None when the key is missing.                          *)
PayloadKeys == {"btc", "bch", "dgb", "ltc"}

AddrDict(allowed, other) == [allowed_addresses |-> allowed, addresses |-> other]

(* Field(default_factory=lambda: {"allowed_addresses": []}) *)
DefaultEntry == AddrDict(Some(<<>>), None)

Allowlist == [c \in Currencies |-> DefaultEntry]

(* Allowlist.model_validate: the three declared fields, defaults for the   *)
(* missing ones; keys that are no field of the model are ignored.          *)
model_validate(data) ==
    [c \in Currencies |-> IF data[c] = None THEN DefaultEntry ELSE data[c][1]]

model_dump(al) ==
    [key \in PayloadKeys |-> IF key \in Currencies THEN Some(al[key]) ELSE None]

(* faulty variant: the file is never read back *)
LoadAllowlistDefault(file) == Allowlist

load_allowlist(file) ==
    IF file = NoFile THEN Allowlist ELSE model_validate(file[1])

save_allowlist(al) == Some(model_dump(al))

(* d.get("allowed_addresses"): None and [] are both falsy *)
allowed_addresses(d) ==
    IF d.allowed_addresses = None THEN <<>> ELSE d.allowed_addresses[1]

has_allowlist(al) ==
    \/ allowed_addresses(al.btc) # <<>>
    \/ allowed_addresses(al.bch) # <<>>
    \/ allowed_addresses(al.dgb) # <<>>

----------------------------------------------------------------------------
(* The state document *)
EmptyIntel == [containers |-> None, roles |-> None]

DefaultState == [last_run |-> None, intel |-> EmptyIntel, actions |-> <<>>, alerts |-> <<>>]

load_state(file) == IF file = NoFile THEN DefaultState ELSE file[1]

save_state(s) == Some(s)

(* faulty variant: the slice is forgotten *)
LastNUncut(list, n) == list

(* faulty variant: list[:n], the oldest entries are kept *)
LastNHead(list, n) ==
    IF Len(list) <= n THEN list ELSE SubSeq(list, 1, n)

(* list[-n:] *)
LastN(list, n) ==
    IF Len(list) <= n THEN list ELSE SubSeq(list, Len(list) - n + 1, Len(list))

(* image build *)
action_log(s, t, kind, details) ==
    [s EXCEPT !.actions = LastN(Append(@, [ts |-> t, kind |-> kind, details |-> details]), LOG_CAP)]

alert(s, t, level, msg, meta) ==
    [s EXCEPT !.alerts = LastN(Append(@, [ts |-> t, level |-> level, msg |-> msg, meta |-> meta]), LOG_CAP)]

(* agent build *)
push(s, key, item) ==
    [s EXCEPT ![key] = LastN(Append(@, item), LOG_CAP)]

IntelContainers(cs) ==
    [i \in 1..Len(cs) |->
        [id |-> cs[i].Id, names |-> cs[i].Names, image |-> cs[i].Image,
         state |-> cs[i].State, status |-> cs[i].Status]]

IntelRoles(cs, rl) ==
    [r \in Roles |->
        IF rl[r] = 0 THEN [id |-> None, name |-> None]
        ELSE [id |-> Some(cs[rl[r]].Id),
              name |-> IF cs[rl[r]].Names = <<>> THEN None ELSE Some(cs[rl[r]].Names[1])]]

WithIntel(s, cs, rl) ==
    [s EXCEPT !.intel = [containers |-> Some(IntelContainers(cs)),
                         roles |-> Some(IntelRoles(cs, rl))]]

----------------------------------------------------------------------------
(* What the Docker proxy can answer *)
n_bitcoind == <<"/","B","i","t","c","o","i","n","d">>
i_bitcoind == <<"l","n","c","m","/","b","i","t","c","o","i","n","d",":","v","2","7">>
n_cash == <<"/","b","i","t","c","o","i","n","-","c","a","s","h","-","n","o","d","e">>
i_cash == <<"z","q","u","e","s","t","z","/","B","C","H","N">>
n_node3 == <<"/","n","o","d","e","3">>
i_digibyte == <<"D","i","g","i","B","y","t","e","/","c","o","r","e">>
n_pool == <<"/","p","o","o","l">>
i_pool == <<"c","o","i","n","f","o","u","n","d","r","y","/","M","i","n","i","n","g","C","o","r","e">>
n_nginx == <<"/","n","g","i","n","x">>
i_nginx == <<"n","g","i","n","x",":","1",".","2","5">>

StatusOf(cstate) == IF cstate = st_running THEN "Up 2 hours" ELSE "Exited (1) 5 minutes ago"

cBtc(cstate) == Container("c1", <<n_bitcoind>>, i_bitcoind, cstate, StatusOf(cstate))
cCash(cstate) == Container("c2", <<n_cash>>, i_cash, cstate, StatusOf(cstate))
cDgb(cstate) == Container("c3", <<n_node3>>, i_digibyte, cstate, StatusOf(cstate))
cPool(cstate) == Container("c4", <<n_pool>>, i_pool, cstate, StatusOf(cstate))
cNginx(cstate) == Container("c5", <<n_nginx>>, i_nginx, cstate, StatusOf(cstate))
cAnon(cstate) == Container("c6", <<>>, kw_bchn, cstate, StatusOf(cstate))

(* GET /containers/json?all=1 answers one of these lists *)
Worlds ==
    { <<cNginx(st_running), cBtc(st_running)>>,
      <<cBtc(st_exited), cPool(st_dead)>>,
      <<cNginx(st_running), cDgb(st_running), cCash(st_exited)>> }

(* roles = classify(containers), for each list the proxy can answer *)
RolesOf == [w \in Worlds |-> classify(w)]

(* POST /containers/{id}/restart answers one of these status codes *)
RestartStatuses == {204, 304, 500}

ListFailedText == "Server error '500 Internal Server Error' for url '/containers/json?all=1'"

RestartFailedText(status) == IF status = 500 THEN "Restart failed: 500" ELSE "Restart failed"

(* faulty variant: 304 Not Modified is taken for a failure *)
RestartOkOnly204(status) == status = 204

(* docker_restart raises unless the status is 204 or 304 *)
restart_ok(status) == status \in {204, 304}

----------------------------------------------------------------------------
(* The tick *)
NeedsRestart(c) == lower(c.State) \in {st_exited, st_dead}

(* image build only: the agent build has no failsafe *)
Failsafe(role, al) ==
    /\ variant = "image"
    /\ role = "miningcore"
    /\ FAILSAFE_STOP_MINING
    /\ ~has_allowlist(al)

FailsafeText == "MiningCore present but allowlist not set. Failsafe posture active."

(* The for loop over the roles from position i, up to the next await of    *)
(* docker_restart (k = the role's position) or to the end (k = 5).         *)
RECURSIVE RunRoles(_, _, _, _, _, _)
RunRoles(s, i, cs, rl, al, t) ==
    IF i > Len(ROLE_ORDER) THEN [state |-> s, k |-> i]
    ELSE LET role == ROLE_ORDER[i]
         IN  IF rl[role] = 0 THEN RunRoles(s, i + 1, cs, rl, al, t)
             ELSE IF ~NeedsRestart(cs[rl[role]]) THEN RunRoles(s, i + 1, cs, rl, al, t)
             ELSE IF Failsafe(role, al)
                  THEN RunRoles(alert(s, t, "critical", FailsafeText, [role |-> role]),
                                i + 1, cs, rl, al, t)
                  ELSE [state |-> s, k |-> i]

(* faulty variant: the loop runs whatever ARMED_MODE says *)
RunLoopArmedAlways(s, i, cs, rl, al, t) == RunRoles(s, i, cs, rl, al, t)

(* if ARMED_MODE: the for loop; otherwise straight to last_run *)
RunLoop(s, i, cs, rl, al, t) ==
    IF ARMED_MODE THEN RunRoles(s, i, cs, rl, al, t)
    ELSE [state |-> s, k |-> Len(ROLE_ORDER) + 1]

RestartEntry(t, role, id) ==
    IF variant = "image"
    THEN [ts |-> t, kind |-> "restart", details |-> [role |-> role, id |-> id]]
    ELSE [ts |-> t, kind |-> "restart", role |-> role]

LogRestart(s, t, role, id) ==
    IF variant = "image"
    THEN action_log(s, t, "restart", [role |-> role, id |-> id])
    ELSE push(s, "actions", [ts |-> t, kind |-> "restart", role |-> role])

(* faulty variant: last_run is stamped on the failure path too *)
LogErrorStampsLastRun(s, t, e) ==
    [(IF variant = "image"
      THEN alert(s, t, "error", "Agent tick failed.", [error |-> e])
      ELSE push(s, "alerts", [ts |-> t, level |-> "error", msg |-> e]))
        EXCEPT !.last_run = Some(t)]

(* faulty variant: the exception is swallowed without an alert *)
LogErrorSilently(s, t, e) == s

LogError(s, t, e) ==
    IF variant = "image"
    THEN alert(s, t, "error", "Agent tick failed.", [error |-> e])
    ELSE push(s, "alerts", [ts |-> t, level |-> "error", msg |-> e])

Request(op, role, id, status) == [op |-> op, role |-> role, id |-> id, status |-> status]

Answered(reqs, status) == [reqs EXCEPT ![Len(reqs)].status = status]

(* faulty variant: the loop starts ticks as tasks, without awaiting them *)
LoopStartsTickUnawaited == loopPc \in {"boot", "sleep", "tick"}

(* The loop task calls the tick only when its sleep has ended *)
LoopMayStartTick == loopPc \in {"boot", "sleep"}

SleepSeconds ==
    IF loopPc = "boot"
    THEN (IF variant = "image" THEN BOOT_SLEEP_IMAGE ELSE BOOT_SLEEP_AGENT)
    ELSE TICK_SECONDS

(* save_state(state) and the return to the loop's sleep *)
SaveAndReturn(s) ==
    /\ stateFile' = save_state(s)
    /\ state' = s
    /\ tickPc' = "idle"
    /\ loopPc' = "sleep"
    /\ inflight' = inflight - 1
    /\ lastSaveAt' = Some(now)

(* From position i: run the loop to the next restart request, or finish *)
Continue(s, i, cs, rl, reqs) ==
    LET r == RunLoop(s, i, cs, rl, a, now)
    IN  IF r.k > Len(ROLE_ORDER)
        THEN /\ SaveAndReturn([r.state EXCEPT !.last_run = Some(now)])
             /\ k' = r.k
             /\ requests' = reqs
        ELSE /\ state' = r.state
             /\ k' = r.k
             /\ tickPc' = "restart"
             /\ requests' = Append(reqs, Request("restart", ROLE_ORDER[r.k],
                                                 cs[rl[ROLE_ORDER[r.k]]].Id, 0))
             /\ UNCHANGED <<stateFile, loopPc, inflight, lastSaveAt>>

NoRoles == [r \in Roles |-> 0]

(* loop_task wakes up and agent_tick runs load_state() *)
TickStart ==
    /\ LoopMayStartTick
    /\ ticks + posts < MaxOps
    /\ now' = now + SleepSeconds
    /\ ticks' = ticks + 1
    /\ inflight' = inflight + 1
    /\ loopPc' = "tick"
    /\ state' = load_state(stateFile)
    /\ loaded' = load_state(stateFile)
    /\ error' = None
    /\ containers' = <<>>
    /\ roles' = NoRoles
    /\ k' = 0
    /\ IF variant = "image"
       THEN tickPc' = "allow" /\ requests' = <<>>
       ELSE tickPc' = "list" /\ requests' = <<Request("list", "", "", 0)>>
    /\ UNCHANGED <<variant, ARMED_MODE, FAILSAFE_STOP_MINING, stateFile, allowFile, a,
                   lastSaveAt, postPc, payload, st, posts, fnIn, fnOut>>

(* image build: a = load_allowlist(), then the list request is sent *)
TickLoadAllowlist ==
    /\ tickPc = "allow"
    /\ a' = load_allowlist(allowFile)
    /\ tickPc' = "list"
    /\ requests' = <<Request("list", "", "", 0)>>
    /\ UNCHANGED <<variant, ARMED_MODE, FAILSAFE_STOP_MINING, stateFile, allowFile, now,
                   loopPc, inflight, state, containers, roles, k, loaded, error,
                   lastSaveAt, ticks, postPc, payload, st, posts, fnIn, fnOut>>

(* the container list arrives *)
ListOk(w) ==
    /\ tickPc = "list"
    /\ containers' = w
    /\ roles' = RolesOf[w]
    /\ Continue(WithIntel(state, w, RolesOf[w]), 1, w, RolesOf[w], Answered(requests, 200))
    /\ UNCHANGED <<variant, ARMED_MODE, FAILSAFE_STOP_MINING, allowFile, now, a, loaded,
                   error, ticks, postPc, payload, st, posts, fnIn, fnOut>>

(* the tick caught exception e: one error alert, then save_state *)
Fail(e, reqs) ==
    /\ error' = Some(e)
    /\ requests' = reqs
    /\ SaveAndReturn(LogError(state, now, e))

(* docker_list_containers raises *)
ListFail ==
    /\ tickPc = "list"
    /\ Fail(ListFailedText, Answered(requests, 500))
    /\ UNCHANGED <<variant, ARMED_MODE, FAILSAFE_STOP_MINING, allowFile, now, a, containers,
                   roles, k, loaded, ticks, postPc, payload, st, posts, fnIn, fnOut>>

(* the answer to the restart request of role ROLE_ORDER[k] arrives *)
RestartAnswer(status) ==
    /\ tickPc = "restart"
    /\ IF restart_ok(status)
       THEN /\ Continue(LogRestart(state, now, ROLE_ORDER[k], containers[roles[ROLE_ORDER[k]]].Id),
                        k + 1, containers, roles, Answered(requests, status))
            /\ UNCHANGED error
       ELSE /\ Fail(RestartFailedText(status), Answered(requests, status))
            /\ UNCHANGED k
    /\ UNCHANGED <<variant, ARMED_MODE, FAILSAFE_STOP_MINING, allowFile, now, a, containers,
                   roles, loaded, ticks, postPc, payload, st, posts, fnIn, fnOut>>

----------------------------------------------------------------------------
(* POST /api/allowlist.  The handler is a plain `def`: it runs on a worker *)
(* thread, beside the event loop that runs the tick.                       *)
Payload(btc, bch, dgb, ltc) == [btc |-> btc, bch |-> bch, dgb |-> dgb, ltc |-> ltc]

Payloads ==
    { Payload(Some(AddrDict(Some(<<"addr1">>), None)), None, None, None),
      Payload(None, Some(AddrDict(None, Some(<<"addr2">>))), None,
              Some(AddrDict(Some(<<"addr3">>), None))) }

AllowlistCounts(al) ==
    [btc |-> Len(allowed_addresses(al.btc)),
     bch |-> Len(allowed_addresses(al.bch)),
     dgb |-> Len(allowed_addresses(al.dgb))]

(* a = Allowlist.model_validate(payload); save_allowlist(a) *)
PostStart(p) ==
    /\ postPc = "idle"
    /\ ticks + posts < MaxOps
    /\ posts' = posts + 1
    /\ payload' = Some(p)
    /\ allowFile' = save_allowlist(model_validate(p))
    /\ postPc' = IF variant = "image" THEN "load" ELSE "idle"
    /\ UNCHANGED <<variant, ARMED_MODE, FAILSAFE_STOP_MINING, stateFile, now, loopPc, tickPc,
                   inflight, state, a, containers, roles, k, loaded, requests, error,
                   lastSaveAt, ticks, st, fnIn, fnOut>>

(* image build: st = load_state() *)
PostLoadState ==
    /\ postPc = "load"
    /\ st' = load_state(stateFile)
    /\ postPc' = "save"
    /\ UNCHANGED <<variant, ARMED_MODE, FAILSAFE_STOP_MINING, stateFile, allowFile, now,
                   loopPc, tickPc, inflight, state, a, containers, roles, k, loaded,
                   requests, error, lastSaveAt, ticks, payload, posts, fnIn, fnOut>>

(* image build: action_log(st, "allowlist_set", ...); save_state(st) *)
PostSaveState ==
    /\ postPc = "save"
    /\ st' = action_log(st, now, "allowlist_set", AllowlistCounts(model_validate(payload[1])))
    /\ stateFile' = save_state(st')
    /\ postPc' = "idle"
    /\ UNCHANGED <<variant, ARMED_MODE, FAILSAFE_STOP_MINING, allowFile, now, loopPc, tickPc,
                   inflight, state, a, containers, roles, k, loaded, requests, error,
                   lastSaveAt, ticks, payload, posts, fnIn, fnOut>>

(* GET /api/allowlist and GET /api/state, asked now *)
api_allowlist == model_dump(load_allowlist(allowFile))

api_state == load_state(stateFile)

----------------------------------------------------------------------------
(* The files an earlier run of the agent can have left in /data *)
PriorTs(i) == (i - LOG_CAP - 1) * TICK_SECONDS

PriorActions(v) ==
    [i \in 1..LOG_CAP |->
        IF v = "image"
        THEN [ts |-> PriorTs(i), kind |-> "restart", details |-> [role |-> "btc", id |-> "c1"]]
        ELSE [ts |-> PriorTs(i), kind |-> "restart", role |-> "btc"]]

PriorAlerts(v) ==
    [i \in 1..LOG_CAP |->
        IF v = "image"
        THEN [ts |-> PriorTs(i), level |-> "error", msg |-> "Agent tick failed.",
              meta |-> [error |-> ListFailedText]]
        ELSE [ts |-> PriorTs(i), level |-> "error", msg |-> ListFailedText]]

PriorState(v) ==
    [WithIntel(DefaultState, <<cBtc(st_exited)>>, classify(<<cBtc(st_exited)>>))
        EXCEPT !.last_run = Some(PriorTs(LOG_CAP)),
               !.actions = PriorActions(v),
               !.alerts = PriorAlerts(v)]

PriorAllowlist == [Allowlist EXCEPT !.dgb = AddrDict(Some(<<"addr0">>), None)]

NoInput == <<>>

Init ==
    /\ variant \in {"image", "agent"}
    /\ ARMED_MODE \in BOOLEAN
    /\ FAILSAFE_STOP_MINING \in BOOLEAN
    /\ (variant = "agent" \/ ~ARMED_MODE => FAILSAFE_STOP_MINING)
    /\ stateFile \in {NoFile, save_state(PriorState(variant))}
    /\ allowFile \in {NoFile, save_allowlist(PriorAllowlist)}
    /\ now = 0
    /\ loopPc = "boot"
    /\ tickPc = "idle"
    /\ inflight = 0
    /\ state = DefaultState
    /\ a = Allowlist
    /\ containers = <<>>
    /\ roles = NoRoles
    /\ k = 0
    /\ loaded = DefaultState
    /\ requests = <<>>
    /\ error = None
    /\ lastSaveAt = None
    /\ ticks = 0
    /\ postPc = "idle"
    /\ payload = None
    /\ st = DefaultState
    /\ posts = 0
    /\ fnIn = NoInput
    /\ fnOut = None

Next ==
    \/ TickStart
    \/ TickLoadAllowlist
    \/ \E w \in Worlds : ListOk(w)
    \/ ListFail
    \/ \E status \in RestartStatuses : RestartAnswer(status)
    \/ \E p \in Payloads : PostStart(p)
    \/ PostLoadState
    \/ PostSaveState

Spec == Init /\ [][Next]_vars

TypeOK ==
    /\ inflight \in 0..MaxOps
    /\ ticks + posts \in 0..MaxOps
    /\ loopPc \in {"boot", "tick", "sleep"}
    /\ tickPc \in {"idle", "allow", "list", "restart"}
    /\ postPc \in {"idle", "load", "save"}

----------------------------------------------------------------------------
(* classify alone: the list is the input, the roles are the result *)
Universe ==
    { cBtc(st_running), cCash(st_exited), cDgb(st_running), cPool(st_dead),
      cNginx(st_running), cAnon(st_exited) }

RECURSIVE ListsUpTo(_)
ListsUpTo(n) ==
    IF n = 0 THEN {<<>>}
    ELSE ListsUpTo(n - 1) \cup
         {Append(l, c) : l \in {x \in ListsUpTo(n - 1) : Len(x) = n - 1}, c \in Universe}

(* everything but fnIn and fnOut, at rest *)
AtRest ==
    /\ variant = "image"
    /\ ARMED_MODE = FALSE
    /\ FAILSAFE_STOP_MINING = TRUE
    /\ stateFile = NoFile
    /\ allowFile = NoFile
    /\ now = 0
    /\ loopPc = "boot"
    /\ tickPc = "idle"
    /\ inflight = 0
    /\ state = DefaultState
    /\ a = Allowlist
    /\ containers = <<>>
    /\ roles = NoRoles
    /\ k = 0
    /\ loaded = DefaultState
    /\ requests = <<>>
    /\ error = None
    /\ lastSaveAt = None
    /\ ticks = 0
    /\ postPc = "idle"
    /\ payload = None
    /\ st = DefaultState
    /\ posts = 0

RestUnchanged ==
    UNCHANGED <<variant, ARMED_MODE, FAILSAFE_STOP_MINING, stateFile, allowFile, now,
                loopPc, tickPc, inflight, state, a, containers, roles, k, loaded,
                requests, error, lastSaveAt, ticks, postPc, payload, st, posts>>

InitClassify ==
    /\ AtRest
    /\ fnIn \in ListsUpTo(MaxContainers)
    /\ fnOut = None

ClassifyStep ==
    /\ fnOut = None
    /\ fnOut' = Some(classify(fnIn))
    /\ UNCHANGED fnIn
    /\ RestUnchanged

SpecClassify == InitClassify /\ [][ClassifyStep]_vars

----------------------------------------------------------------------------
(* The log appends alone: a state document is the input *)
LogLengths == 0..LOG_CAP

(* the document with the n most recent entries of an earlier run in each log *)
StateWithLogs(v, n) ==
    [DefaultState EXCEPT
        !.actions = SubSeq(PriorActions(v), LOG_CAP - n + 1, LOG_CAP),
        !.alerts = SubSeq(PriorAlerts(v), LOG_CAP - n + 1, LOG_CAP)]

Applied(key, item, s) == [key |-> key, item |-> item, state |-> s]

InitLog ==
    /\ AtRest
    /\ \E v \in {"image", "agent"}, n \in LogLengths : fnIn = StateWithLogs(v, n)
    /\ fnOut = None

ActionLogStep ==
    /\ fnOut = None
    /\ \E role \in Roles :
         fnOut' = Some(Applied("actions",
                               [ts |-> now, kind |-> "restart",
                                details |-> [role |-> role, id |-> "c1"]],
                               action_log(fnIn, now, "restart", [role |-> role, id |-> "c1"])))
    /\ UNCHANGED fnIn
    /\ RestUnchanged

AlertStep ==
    /\ fnOut = None
    /\ fnOut' = Some(Applied("alerts",
                             [ts |-> now, level |-> "error", msg |-> "Agent tick failed.",
                              meta |-> [error |-> ListFailedText]],
                             alert(fnIn, now, "error", "Agent tick failed.",
                                   [error |-> ListFailedText])))
    /\ UNCHANGED fnIn
    /\ RestUnchanged

PushStep ==
    /\ fnOut = None
    /\ \E key \in {"actions", "alerts"} :
         LET item == IF key = "actions"
                     THEN [ts |-> now, kind |-> "restart", role |-> "dgb"]
                     ELSE [ts |-> now, level |-> "error", msg |-> ListFailedText]
         IN  fnOut' = Some(Applied(key, item, push(fnIn, key, item)))
    /\ UNCHANGED fnIn
    /\ RestUnchanged

NextLog == ActionLogStep \/ AlertStep \/ PushStep

SpecLog == InitLog /\ [][NextLog]_vars

----------------------------------------------------------------------------
(* Shorthands of the properties *)
TickDone == ticks > 0 /\ tickPc = "idle"

StoredActions == load_state(stateFile).actions
StoredAlerts == load_state(stateFile).alerts

RestartRequests == {i \in 1..Len(requests) : requests[i].op = "restart"}

MiningcoreDown ==
    /\ roles["miningcore"] # 0
    /\ NeedsRestart(containers[roles["miningcore"]])

(* C1: in armed mode a tick sends no restart request for the exited or     *)
(* dead miningcore container when the allowlist it loaded (a; the agent    *)
(* build loads none) holds no payout address, and a tick that completes    *)
(* in that situation has recorded a critical alert instead.                *)
C1_NoMiningcoreRestartWithoutAllowlist ==
    (ARMED_MODE /\ ~has_allowlist(a)) =>
        /\ \A i \in RestartRequests : requests[i].role # "miningcore"
        /\ (TickDone /\ error = None /\ MiningcoreDown) =>
              /\ state.alerts # <<>>
              /\ state.alerts[Len(state.alerts)].level = "critical"
              /\ state.alerts[Len(state.alerts)].ts = now

(* C2: with ARMED_MODE off a tick sends no restart request and appends no  *)
(* action; the document it saves differs from the one it loaded only in    *)
(* intel and last_run, or, when it failed, in one more error alert.        *)
C2_UnarmedTickOnlyObserves ==
    ~ARMED_MODE =>
        /\ tickPc # "restart"
        /\ RestartRequests = {}
        /\ state.actions = loaded.actions
        /\ (TickDone /\ error = None) => state.alerts = loaded.alerts
        /\ (TickDone /\ error # None) =>
              /\ state.intel = loaded.intel
              /\ state.last_run = loaded.last_run
              /\ state.alerts # <<>>
              /\ state.alerts[Len(state.alerts)].level = "error"
              /\ state.alerts = LastN(Append(loaded.alerts, state.alerts[Len(state.alerts)]),
                                      LOG_CAP)

C2_Witness ==
    /\ ~ARMED_MODE
    /\ TickDone
    /\ error = None
    /\ roles["btc"] # 0
    /\ NeedsRestart(containers[roles["btc"]])
    /\ state.last_run = Some(now)
    /\ state.intel # loaded.intel

(* C3: an allowlist_set action in the stored actions log stays there at    *)
(* every step, unless the log is at its 200-entry cap after the step.      *)
C3_AllowlistSetKept ==
    [][\A i \in 1..Len(StoredActions) :
          StoredActions[i].kind = "allowlist_set" =>
              \/ \E j \in 1..Len(StoredActions') :
                    /\ StoredActions'[j].kind = "allowlist_set"
                    /\ StoredActions'[j] = StoredActions[i]
              \/ Len(StoredActions') = LOG_CAP]_vars

(* C4: at most one tick is in progress, and a tick that runs after an      *)
(* earlier tick's save started no sooner than TICK_SECONDS after it.       *)
C4_OneTickAtATime ==
    /\ inflight <= 1
    /\ (inflight = 1) <=> (loopPc = "tick")
    /\ (loopPc = "tick" /\ lastSaveAt # None) => now >= lastSaveAt[1] + TICK_SECONDS

C4_Witness ==
    /\ ticks = 2
    /\ loopPc = "tick"
    /\ lastSaveAt # None
    /\ now = lastSaveAt[1] + TICK_SECONDS

(* C5: the stored state file holds at most 200 actions and 200 alerts.     *)
C5_LogsCapped ==
    /\ Len(StoredActions) <= LOG_CAP
    /\ Len(StoredAlerts) <= LOG_CAP

C5_Witness ==
    /\ Len(StoredActions) = LOG_CAP
    /\ StoredActions[LOG_CAP].ts > 0
    /\ Len(StoredAlerts) = LOG_CAP
    /\ StoredAlerts[LOG_CAP].ts > 0

(* C6: a tick in which a Docker call failed sent that call once and no     *)
(* call after it, appended exactly one alert, of level error, saved the    *)
(* state, and left the loop in its sleep, from which the next tick starts. *)
C6_FailedTickLogsAndGoesOn ==
    (ticks > 0 /\ error # None) =>
        /\ tickPc = "idle"
        /\ loopPc = "sleep"
        /\ LoopMayStartTick
        /\ lastSaveAt = Some(now)
        /\ requests # <<>>
        /\ \A i \in 1..Len(requests) :
              (requests[i].status \notin {200, 204, 304}) <=> (i = Len(requests))
        /\ Cardinality({i \in 1..Len(requests) : requests[i].op = "list"}) = 1
        /\ state.alerts # <<>>
        /\ state.alerts[Len(state.alerts)].level = "error"
        /\ state.alerts[Len(state.alerts)].ts = now
        /\ state.alerts = LastN(Append(loaded.alerts, state.alerts[Len(state.alerts)]), LOG_CAP)

C6_Witness ==
    /\ ticks = 2
    /\ loopPc = "tick"
    /\ \E i \in 1..Len(StoredAlerts) :
          StoredAlerts[i].level = "error" /\ StoredAlerts[i].ts = lastSaveAt[1]

(* C7: once a POST /api/allowlist with body P has returned, and until the  *)
(* next POST, GET /api/allowlist returns the btc, bch and dgb entries of P *)
(* (the keys of P that are none of these are dropped), each missing one    *)
(* filled in as an empty allowed_addresses list; ticks leave it alone.     *)
ValidatedFill(p) ==
    [key \in PayloadKeys |->
        IF key \notin Currencies THEN None
        ELSE IF p[key] = None THEN Some(AddrDict(Some(<<>>), None))
        ELSE p[key]]

C7_GetReturnsValidatedPost ==
    (payload # None /\ postPc = "idle") => api_allowlist = ValidatedFill(payload[1])

C7_Witness ==
    /\ variant = "image"
    /\ payload # None
    /\ postPc = "idle"
    /\ TickDone
    /\ a = model_validate(payload[1])
    /\ has_allowlist(a)
    /\ api_allowlist = ValidatedFill(payload[1])

(* C7 as first stated: GET returns P itself with the missing currencies    *)
(* filled in.                                                              *)
FilledPayload(p) ==
    [key \in PayloadKeys |->
        IF key \in Currencies /\ p[key] = None THEN Some(AddrDict(Some(<<>>), None))
        ELSE p[key]]

C7_GetReturnsFilledPayload ==
    (payload # None /\ postPc = "idle") => api_allowlist = FilledPayload(payload[1])

(* C8: for each role classify returns the first container of the list      *)
(* whose first name or image contains, ignoring case, one of the role's    *)
(* keywords, and nothing when no container does.                           *)
ContainsIgnoringCase(key, str) ==
    \E i \in 0..(Len(str) - Len(key)) :
        \A j \in 1..Len(key) : LowerChar(str[i + j]) = key[j]

RoleMatches(role, c) ==
    \E key \in Keys(role) :
        \/ (c.Names # <<>> /\ ContainsIgnoringCase(key, c.Names[1]))
        \/ ContainsIgnoringCase(key, c.Image)

C8_ClassifyPicksFirstMatch ==
    fnOut # None =>
        \A role \in Roles :
            LET i == fnOut[1][role]
            IN  /\ i \in 0..Len(fnIn)
                /\ (i = 0) <=> (\A j \in 1..Len(fnIn) : ~RoleMatches(role, fnIn[j]))
                /\ (i # 0) => /\ RoleMatches(role, fnIn[i])
                              /\ \A j \in 1..(i - 1) : ~RoleMatches(role, fnIn[j])

C8_Witness ==
    /\ fnOut # None
    /\ Len(fnIn) = 3
    /\ fnOut[1]["miningcore"] = 2
    /\ RoleMatches("miningcore", fnIn[3])
    /\ fnOut[1]["bch"] = 1
    /\ fnIn[1].Names = <<>>
    /\ fnOut[1]["dgb"] = 0

(* C9: an append yields the last 199 elements of the previous list         *)
(* followed by the new entry, that is the last 200 of the list with the    *)
(* entry appended; the other log is untouched.                             *)
Min(x, y) == IF x <= y THEN x ELSE y

OtherKey(key) == IF key = "actions" THEN "alerts" ELSE "actions"

C9_AppendKeepsNewest199 ==
    fnOut # None =>
        LET prev == fnIn[fnOut[1].key]
            out == fnOut[1].state[fnOut[1].key]
            kept == Min(Len(prev), LOG_CAP - 1)
        IN  /\ Len(out) = kept + 1
            /\ out[Len(out)] = fnOut[1].item
            /\ \A i \in 1..kept : out[i] = prev[Len(prev) - kept + i]
            /\ fnOut[1].state[OtherKey(fnOut[1].key)] = fnIn[OtherKey(fnOut[1].key)]

C9_Witness ==
    /\ fnOut # None
    /\ Len(fnIn[fnOut[1].key]) = LOG_CAP
    /\ fnOut[1].state[fnOut[1].key][1] = fnIn[fnOut[1].key][2]

(* C9 as first stated: the last 200 elements of the previous list followed *)
(* by the new entry.                                                       *)
C9_AppendKeepsLast200OfPrevious ==
    fnOut # None =>
        LET prev == fnIn[fnOut[1].key]
            out == fnOut[1].state[fnOut[1].key]
            kept == Min(Len(prev), LOG_CAP)
        IN  /\ Len(out) = kept + 1
            /\ out[Len(out)] = fnOut[1].item
            /\ \A i \in 1..kept : out[i] = prev[Len(prev) - kept + i]

(* C10: the actions of the tick's document are those it loaded followed by *)
(* one restart action per restart request answered 204 or 304, in order,   *)
(* and nothing for a request that failed or is unanswered; the document    *)
(* with them is what the tick saves, also when it ends in a failure.       *)
RECURSIVE SucceededEntries(_, _)
SucceededEntries(reqs, t) ==
    IF reqs = <<>> THEN <<>>
    ELSE LET r == reqs[Len(reqs)]
             before == SucceededEntries(SubSeq(reqs, 1, Len(reqs) - 1), t)
         IN  IF r.op = "restart" /\ r.status \in {204, 304}
             THEN Append(before, RestartEntry(t, r.role, r.id))
             ELSE before

C10_RestartLoggedIffSucceeded ==
    /\ [](ticks > 0 =>
            state.actions = LastN(loaded.actions \o SucceededEntries(requests, now), LOG_CAP))
    /\ [][(tickPc # "idle" /\ tickPc' = "idle") => stateFile' = Some(state')]_vars

C10_Witness ==
    /\ TickDone
    /\ error # None
    /\ Len(requests) = 3
    /\ requests[2].status = 304
    /\ requests[3].status = 500
    /\ StoredActions # <<>>
    /\ StoredActions[Len(StoredActions)] = RestartEntry(now, requests[2].role, requests[2].id)

(* C11: in armed mode the restart requests of a tick follow the order btc, *)
(* bch, dgb, miningcore, no role whose container is down is passed over on *)
(* the way, and a failed restart is the tick's last request: the roles     *)
(* after it get none, also when their containers are exited or dead.       *)
RolePos(role) ==
    CASE role = "btc" -> 1
      [] role = "bch" -> 2
      [] role = "dgb" -> 3
      [] role = "miningcore" -> 4

RoleDown(role) == roles[role] # 0 /\ NeedsRestart(containers[roles[role]])

C11_FixedOrderFailureAborts ==
    ARMED_MODE =>
        /\ \A i \in RestartRequests : \A j \in RestartRequests :
              i < j => RolePos(requests[i].role) < RolePos(requests[j].role)
        /\ \A i \in RestartRequests : \A role \in Roles :
              (RolePos(role) < RolePos(requests[i].role) /\ RoleDown(role)) =>
                  \E j \in RestartRequests : j < i /\ requests[j].role = role
        /\ \A i \in RestartRequests :
              requests[i].status \notin {0, 204, 304} =>
                  /\ i = Len(requests)
                  /\ tickPc = "idle"
                  /\ error # None

C11_Witness ==
    /\ ARMED_MODE
    /\ TickDone
    /\ error # None
    /\ Len(requests) = 2
    /\ requests[2].role = "btc"
    /\ requests[2].status = 500
    /\ RoleDown("miningcore")
    /\ ~Failsafe("miningcore", a)

(* C12: no step sends a miningcore restart request while the allowlist     *)
(* stored at that moment holds no payout address.  Stated for the image    *)
(* build with FAILSAFE_STOP_MINING on, where the failsafe is in force.     *)
SendsMiningcoreRestart ==
    /\ Len(requests') > Len(requests)
    /\ requests'[Len(requests')].op = "restart"
    /\ requests'[Len(requests')].role = "miningcore"

C12_FailsafeReadsStoredAllowlist ==
    [][(variant = "image" /\ FAILSAFE_STOP_MINING /\ SendsMiningcoreRestart) =>
          has_allowlist(load_allowlist(allowFile'))]_vars

(* C13: within one tick no container receives two restart requests (the    *)
(* containers picked for the roles being pairwise distinct).               *)
C13_NoContainerRestartedTwice ==
    \A i \in RestartRequests : \A j \in RestartRequests :
        i # j => requests[i].id # requests[j].id

(* C14: the document of a tick carries the last_run it loaded until the    *)
(* tick ends; a tick that ends without error (the list was obtained and    *)
(* every restart it sent was answered 204 or 304) sets last_run to its     *)
(* time, also when the failsafe kept it from restarting miningcore; a tick *)
(* that caught an error saves the last_run it loaded.                      *)
AllAnswersGood ==
    \A i \in 1..Len(requests) : requests[i].status \in {200, 204, 304}

C14_LastRunStampsCompletedTicks ==
    ticks > 0 =>
        /\ ~TickDone => state.last_run = loaded.last_run
        /\ TickDone => (error = None <=> AllAnswersGood)
        /\ (TickDone /\ error = None) => state.last_run = Some(now)
        /\ (TickDone /\ error # None) => state.last_run = loaded.last_run

C14_Witness ==
    /\ TickDone
    /\ error = None
    /\ ARMED_MODE
    /\ RoleDown("miningcore")
    /\ Failsafe("miningcore", a)
    /\ \A i \in RestartRequests : requests[i].role # "miningcore"
    /\ loaded.last_run # None
    /\ loaded.last_run # Some(now)
    /\ state.last_run = Some(now)
    /\ load_state(stateFile).last_run = Some(now)

====
